---- MODULE Spec2Model ----
(***************************************************************************)
(* Model of the ekdsend-go client: construction (New), the request         *)
(* executor (Client.Request) with its rate-limit permit, retry loop and    *)
(* backoff, and the error classification (Client.handleError).             *)
(***************************************************************************)
EXTENDS Integers, Sequences, FiniteSets, TLC

VARIABLES
    client,       \* the *Client New returned, or NoClient
    newErr,       \* the error New returned, "" when none
    optsApplied,  \* how many options New has run
    newArgs,      \* the arguments New was called with
    tokens,       \* the rate limiter's available permits
    pc,           \* each Request call's position
    ctx,          \* each call's context: live, canceled or past its deadline
    args,         \* each call's method, body and result arguments
    attempt,      \* the loop variable of the retry loop
    resp,         \* resp, as the last c.httpClient.Do left it
    err,          \* err, as the last c.httpClient.Do left it
    ret,          \* the error Request returned
    dest,         \* what the result argument points to
    permits,      \* permits the call has acquired
    sends,        \* calls of c.httpClient.Do the call has made
    waits,        \* the time.Sleep durations of the call, in seconds, in order
    lateWaits,    \* time.Sleep calls started after the context was done
    nFail,        \* sends of the call that ended in a transport failure
    nRetry,       \* sends of the call answered with 429 or 5xx
    decodes,      \* json.Unmarshal calls on the result argument
    reader,       \* the bytes.Reader behind req.Body: none, unread or drained
    nStale,       \* sends that failed on a request body already drained
    voice,        \* each Calls.Create call: its state, the params given and as they are now
    page          \* a PaginatedResponse and what HasMore and NextOffset returned for it

vars ==
    <<client, newErr, optsApplied, newArgs, tokens, pc, ctx, args, attempt, resp, err, ret,
      dest, permits, sends, waits, lateWaits, nFail, nRetry, decodes, reader, nStale,
      voice, page>>

clientVars == <<client, newErr, optsApplied, newArgs>>

apiVars == <<voice, page>>

-----------------------------------------------------------------------------
(* Bounds of the model *)

\* longest option list handed to New
MaxOpts == 1

\* width in bits of the machine integer (Go's int) in the model
IntBits == 4

(* Program constants *)

\* a retry budget that is one short
MaxRetriesOneShort == 3 - 1

\* a retry budget that is one too long
MaxRetriesOneMore == 3 + 1

\* maxRetries := 3
MaxRetries == 3

\* rate.NewLimiter(rate.Limit(100), 10): burst of the default limiter
DefaultBurst == 10

\* if resp.StatusCode >= 400
ErrorStatusFloor == 400

\* resp.StatusCode >= 500
ServerErrorFloor == 500

\* resp.StatusCode == 429
TooManyRequests == 429

-----------------------------------------------------------------------------
(* Strings are sequences of characters, so that prefixes are computed. *)

PrefixLive == <<"e","k","_","l","i","v","e","_">>

PrefixTest == <<"e","k","_","t","e","s","t","_">>

\* strings.HasPrefix(s, prefix)
HasPrefix(s, prefix) ==
    /\ Len(s) >= Len(prefix)
    /\ SubSeq(s, 1, Len(prefix)) = prefix

\* the keys handed to New
Keys ==
    { <<>>,
      PrefixLive,
      PrefixTest \o <<"x">>,
      <<"e","k","_","l","i","v","e">>,
      <<"x">> \o PrefixLive,
      <<"E","K","_","L","I","V","E","_","x">>,
      <<"e","k","_","p","r","o","d","_","x">>,
      <<"s","k","_","t","e","s","t","_","x">> }

\* the prefix check with || in place of &&
KeyErrorEitherMissing(apiKey) ==
    IF apiKey = <<>> THEN "API key is required"
    ELSE IF ~HasPrefix(apiKey, PrefixLive) \/ ~HasPrefix(apiKey, PrefixTest)
         THEN "invalid API key format: must start with 'ek_live_' or 'ek_test_'"
         ELSE ""

\* the two checks of New on the API key; "" when the key passes
KeyError(apiKey) ==
    IF apiKey = <<>> THEN "API key is required"
    ELSE IF ~HasPrefix(apiKey, PrefixLive) /\ ~HasPrefix(apiKey, PrefixTest)
         THEN "invalid API key format: must start with 'ek_live_' or 'ek_test_'"
         ELSE ""

NoClient == [none |-> TRUE]

\* the options handed to New
Options ==
    { [name |-> "WithDebug", debug |-> TRUE],
      [name |-> "WithRateLimiter", burst |-> 1, tokens |-> 0] }

OptLists == UNION { [1..n -> Options] : n \in 0..MaxOpts }

\* WithDebug, WithRateLimiter: one option applied to the client under construction
ApplyOpt(c, opt) ==
    IF opt.name = "WithDebug" THEN [c EXCEPT !.debug = opt.debug]
    ELSE [c EXCEPT !.burst = opt.burst, !.tokens = opt.tokens]

\* for _, opt := range opts { opt(c) }
RECURSIVE ApplyOpts(_, _)
ApplyOpts(c, opts) ==
    IF opts = <<>> THEN c
    ELSE ApplyOpts(ApplyOpt(c, Head(opts)), Tail(opts))

\* c := &Client{...} with the default limiter
DefaultClient(apiKey) ==
    [apiKey |-> apiKey, debug |-> FALSE, burst |-> DefaultBurst, tokens |-> DefaultBurst]

-----------------------------------------------------------------------------
(* Responses and JSON bodies *)

\* the calls of the default specification: one Request call on the client
OneCall == {"call1"}

Statuses == {200, 204, 304, 400, 401, 404, 422, 429, 500, 503}

RequestIDs == {"", "req_1"}

\* the response bodies a server sends: nothing, text that is not JSON, a JSON
\* array, a {"data": ...} object and two error envelopes
Body(kind, message, code, retryAfter, details) ==
    [kind |-> kind, message |-> message, code |-> code,
     retryAfter |-> retryAfter, details |-> details]

EmptyBody == Body("empty", "", "", 0, "")

Bodies ==
    { EmptyBody,
      Body("text", "", "", 0, ""),
      Body("array", "", "", 0, ""),
      Body("data", "", "", 0, ""),
      Body("envelope", "invalid recipient", "VALIDATION_ERROR", 0, "to"),
      Body("envelope", "slow down", "E_CUSTOM", 30, "") }

\* len(respBody)
BodyLen(body) == IF body.kind = "empty" THEN 0 ELSE 1

\* json.Unmarshal(body, &errResp): fails on an empty body, on text that is not
\* JSON and on a JSON value that is no object; an object without "error"
\* leaves the zero values
UnmarshalErrResp(body) ==
    IF body.kind \in {"empty", "text", "array"}
    THEN [ok |-> FALSE, message |-> "", code |-> "", retryAfter |-> 0, details |-> ""]
    ELSE IF body.kind = "envelope"
         THEN [ok |-> TRUE, message |-> body.message, code |-> body.code,
               retryAfter |-> body.retryAfter, details |-> body.details]
         ELSE [ok |-> TRUE, message |-> "", code |-> "", retryAfter |-> 0, details |-> ""]

NoDest == [supplied |-> FALSE, value |-> "none"]

OrigDest == [supplied |-> TRUE, value |-> "original"]

\* json.Unmarshal(respBody, result): a JSON object decodes into the
\* destination, anything else fails and leaves it as it was
UnmarshalResult(body, d) ==
    IF body.kind \in {"data", "envelope"}
    THEN [ok |-> TRUE, dest |-> [supplied |-> TRUE, value |-> body.kind]]
    ELSE [ok |-> FALSE, dest |-> d]

NoResp == [status |-> 0, body |-> EmptyBody, requestID |-> "", present |-> FALSE]

Responses ==
    [status : Statuses, body : Bodies, requestID : RequestIDs, present : {TRUE}]

TransportErrs == {"connection refused", "i/o timeout"}

CtxStates == {"live", "context canceled", "context deadline exceeded"}

\* the transport's error for a request whose body reader is already at its end
StaleBodyErr == "http: ContentLength=N with Body length 0"

\* the errors c.httpClient.Do returns
DoErrs == TransportErrs \cup (CtxStates \ {"live"}) \cup {StaleBodyErr}

-----------------------------------------------------------------------------
(* Error values *)

NilErr == [kind |-> "nil"]

\* fmt.Errorf("<msg>: %w", cause)
Wrap(msg, cause) == [kind |-> "wrapped", msg |-> msg, cause |-> cause]

APIError(kind, message, statusCode, code, requestID, retryAfter, errors) ==
    [kind |-> kind, message |-> message, statusCode |-> statusCode, code |-> code,
     requestID |-> requestID, retryAfter |-> retryAfter, errors |-> errors]

TypedKinds ==
    {"EKDSendError", "ValidationError", "AuthenticationError", "NotFoundError",
     "RateLimitError"}

\* handleError without its case for 404
handleErrorNo404(statusCode, body, requestID) ==
    LET errResp == UnmarshalErrResp(body) IN
    IF ~errResp.ok
    THEN APIError("EKDSendError", "API request failed", statusCode, "UNKNOWN_ERROR",
                  requestID, 0, "")
    ELSE CASE statusCode = 400 ->
                APIError("ValidationError", errResp.message, 400, "VALIDATION_ERROR",
                         requestID, 0, errResp.details)
           [] statusCode = 401 ->
                APIError("AuthenticationError", errResp.message, 401,
                         "AUTHENTICATION_ERROR", requestID, 0, "")
           [] statusCode = 429 ->
                APIError("RateLimitError", errResp.message, 429, "RATE_LIMIT_EXCEEDED",
                         requestID, errResp.retryAfter, "")
           [] OTHER ->
                APIError("EKDSendError", errResp.message, statusCode, errResp.code,
                         requestID, 0, "")

\* handleError leaving the request id out of the typed errors
handleErrorNoRequestID(statusCode, body, requestID) ==
    LET errResp == UnmarshalErrResp(body) IN
    IF ~errResp.ok
    THEN APIError("EKDSendError", "API request failed", statusCode, "UNKNOWN_ERROR",
                  requestID, 0, "")
    ELSE CASE statusCode = 400 ->
                APIError("ValidationError", errResp.message, 400, "VALIDATION_ERROR",
                         "", 0, errResp.details)
           [] statusCode = 401 ->
                APIError("AuthenticationError", errResp.message, 401,
                         "AUTHENTICATION_ERROR", "", 0, "")
           [] statusCode = 404 ->
                APIError("NotFoundError", errResp.message, 404, errResp.code, "", 0, "")
           [] statusCode = 429 ->
                APIError("RateLimitError", errResp.message, 429, "RATE_LIMIT_EXCEEDED",
                         "", errResp.retryAfter, "")
           [] OTHER ->
                APIError("EKDSendError", errResp.message, statusCode, errResp.code,
                         requestID, 0, "")

\* handleError passing the decode failure on instead of falling back
handleErrorNoFallback(statusCode, body, requestID) ==
    LET errResp == UnmarshalErrResp(body) IN
    IF ~errResp.ok
    THEN Wrap("failed to parse response", "json: cannot unmarshal")
    ELSE CASE statusCode = 400 ->
                APIError("ValidationError", errResp.message, 400, "VALIDATION_ERROR",
                         requestID, 0, errResp.details)
           [] statusCode = 401 ->
                APIError("AuthenticationError", errResp.message, 401,
                         "AUTHENTICATION_ERROR", requestID, 0, "")
           [] statusCode = 404 ->
                APIError("NotFoundError", errResp.message, 404, errResp.code,
                         requestID, 0, "")
           [] statusCode = 429 ->
                APIError("RateLimitError", errResp.message, 429, "RATE_LIMIT_EXCEEDED",
                         requestID, errResp.retryAfter, "")
           [] OTHER ->
                APIError("EKDSendError", errResp.message, statusCode, errResp.code,
                         requestID, 0, "")

\* Client.handleError
handleError(statusCode, body, requestID) ==
    LET errResp == UnmarshalErrResp(body) IN
    IF ~errResp.ok
    THEN APIError("EKDSendError", "API request failed", statusCode, "UNKNOWN_ERROR",
                  requestID, 0, "")
    ELSE CASE statusCode = 400 ->
                APIError("ValidationError", errResp.message, 400, "VALIDATION_ERROR",
                         requestID, 0, errResp.details)
           [] statusCode = 401 ->
                APIError("AuthenticationError", errResp.message, 401,
                         "AUTHENTICATION_ERROR", requestID, 0, "")
           [] statusCode = 404 ->
                APIError("NotFoundError", errResp.message, 404, errResp.code,
                         requestID, 0, "")
           [] statusCode = 429 ->
                APIError("RateLimitError", errResp.message, 429, "RATE_LIMIT_EXCEEDED",
                         requestID, errResp.retryAfter, "")
           [] OTHER ->
                APIError("EKDSendError", errResp.message, statusCode, errResp.code,
                         requestID, 0, "")

\* time.Duration(1<<attempt) * time.Second, in seconds
Backoff(a) == 2 ^ a

\* a retry test that takes every error status for retryable
RetryableAnyError(status) == status >= ErrorStatusFloor

\* resp.StatusCode == 429 || resp.StatusCode >= 500
Retryable(status) == status = TooManyRequests \/ status >= ServerErrorFloor

\* attempt < maxRetries
MayRetry(a) == a < MaxRetries

\* resp.StatusCode >= 400
IsErrorStatus(status) == status >= ErrorStatusFloor

\* decoding whenever a destination is supplied, empty body or not
ShouldDecodeAnyBody(d, body) == d.supplied

\* result != nil && len(respBody) > 0
ShouldDecode(d, body) == d.supplied /\ BodyLen(body) > 0

-----------------------------------------------------------------------------
(* Calls.Create: the parameters it reads and writes *)

NoParams == [TTSMessage |-> "", AudioURL |-> "", Voice |-> "", Language |-> ""]

CallParams ==
    [TTSMessage : {"", "hello"}, AudioURL : {"", "https://a/b.mp3"},
     Voice : {"", "nova"}, Language : {"", "fr-FR"}]

\* errors.New(msg)
PlainErr(msg) == [kind |-> "plain", msg |-> msg]

NoVoice == [state |-> "none", given |-> NoParams, params |-> NoParams, err |-> NilErr]

\* a validation that asks for the message alone
MissingTTSMessage(p) == p.TTSMessage = ""

\* params.TTSMessage == "" && params.AudioURL == ""
MissingContent(p) == p.TTSMessage = "" /\ p.AudioURL = ""

\* the defaults Create writes through the params pointer
WithDefaults(p) ==
    [p EXCEPT !.Voice = IF @ = "" THEN "alloy" ELSE @,
              !.Language = IF @ = "" THEN "en-US" ELSE @]

-----------------------------------------------------------------------------
(* PaginatedResponse: Go's int is a signed machine integer whose sum wraps *)

MaxInt == 2 ^ (IntBits - 1) - 1

MinInt == 0 - 2 ^ (IntBits - 1)

\* the value a signed IntBits-bit integer holds for the mathematical n
WrapInt(n) == ((n - MinInt) % (2 ^ IntBits)) + MinInt

\* p.Offset + p.Limit in int
PageSum(p) == WrapInt(p.Offset + p.Limit)

HasMore(p) == PageSum(p) < p.Total

NextOffset(p) == PageSum(p)

NoPage ==
    [Offset |-> 0, Limit |-> 0, Total |-> 0, askedHasMore |-> FALSE, hasMore |-> FALSE,
     askedNextOffset |-> FALSE, nextOffset |-> 0]

\* the pages with non-negative fields, before either method was called
Pages ==
    {[NoPage EXCEPT !.Offset = o, !.Limit = l, !.Total = t] :
        o \in 0..MaxInt, l \in 0..MaxInt, t \in 0..MaxInt}

-----------------------------------------------------------------------------
(* The state machine *)

Calls == DOMAIN pc

Methods == {"POST", "BAD METHOD"}

\* the body argument: nil, a value json.Marshal accepts, a value it rejects
BodyArgs == {"nil", "params", "unmarshalable"}

NoArgs == [method |-> "", body |-> "nil", result |-> FALSE]

InitCalls(S) ==
    /\ client = NoClient
    /\ newErr = ""
    /\ optsApplied = 0
    /\ newArgs = [called |-> FALSE, apiKey |-> <<>>, nOpts |-> 0]
    /\ tokens = 0
    /\ pc = [c \in S |-> "idle"]
    /\ ctx = [c \in S |-> "live"]
    /\ args = [c \in S |-> NoArgs]
    /\ attempt = [c \in S |-> 0]
    /\ resp = [c \in S |-> NoResp]
    /\ err = [c \in S |-> ""]
    /\ ret = [c \in S |-> NilErr]
    /\ dest = [c \in S |-> NoDest]
    /\ permits = [c \in S |-> 0]
    /\ sends = [c \in S |-> 0]
    /\ waits = [c \in S |-> <<>>]
    /\ lateWaits = [c \in S |-> 0]
    /\ nFail = [c \in S |-> 0]
    /\ nRetry = [c \in S |-> 0]
    /\ decodes = [c \in S |-> 0]
    /\ reader = [c \in S |-> "none"]
    /\ nStale = [c \in S |-> 0]
    /\ voice = [c \in S |-> NoVoice]

Init == InitCalls(OneCall) /\ page = NoPage

\* New(apiKey, opts...)
New(apiKey, opts) ==
    /\ client = NoClient
    /\ newErr = ""
    /\ ~newArgs.called
    /\ newArgs' = [called |-> TRUE, apiKey |-> apiKey, nOpts |-> Len(opts)]
    /\ IF KeyError(apiKey) # ""
       THEN /\ newErr' = KeyError(apiKey)
            /\ UNCHANGED <<client, optsApplied, tokens>>
       ELSE LET c == ApplyOpts(DefaultClient(apiKey), opts) IN
            /\ client' = [apiKey |-> c.apiKey, debug |-> c.debug, burst |-> c.burst]
            /\ tokens' = c.tokens
            /\ optsApplied' = Len(opts)
            /\ UNCHANGED newErr
    /\ UNCHANGED <<apiVars, pc, ctx, args, attempt, resp, err, ret, dest, permits, sends,
                   waits, lateWaits, nFail, nRetry, decodes, reader, nStale>>

\* the limiter's bucket refills with time, up to its burst
Refill ==
    /\ client # NoClient
    /\ tokens < client.burst
    /\ tokens' = tokens + 1
    /\ UNCHANGED <<clientVars, apiVars, pc, ctx, args, attempt, resp, err, ret, dest, permits,
                   sends, waits, lateWaits, nFail, nRetry, decodes, reader, nStale>>

\* the caller cancels the context of call c, or its deadline passes
Cancel(c, how) ==
    /\ client # NoClient
    /\ pc[c] # "done"
    /\ ctx[c] = "live"
    /\ ctx' = [ctx EXCEPT ![c] = how]
    /\ UNCHANGED <<clientVars, apiVars, tokens, pc, args, attempt, resp, err, ret, dest,
                   permits, sends, waits, lateWaits, nFail, nRetry, decodes, reader,
                   nStale>>

\* a Wait that does not look at the context on entry
WaitEntryBlind(ctxState, toks) ==
    IF toks > 0 THEN "granted" ELSE "blocked"

\* what c.rateLimiter.Wait(ctx) does on entry: fail on a context that is done,
\* take a permit that is there, or block
WaitEntry(ctxState, toks) ==
    IF ctxState # "live" THEN "error"
    ELSE IF toks > 0 THEN "granted" ELSE "blocked"

\* Request is called: c.rateLimiter.Wait(ctx)
Request(c, method, body, result) ==
    /\ client # NoClient
    /\ pc[c] = "idle"
    /\ args' = [args EXCEPT ![c] = [method |-> method, body |-> body, result |-> result]]
    /\ dest' = [dest EXCEPT ![c] = IF result THEN OrigDest ELSE NoDest]
    /\ LET w == WaitEntry(ctx[c], tokens) IN
       /\ pc' = [pc EXCEPT ![c] = CASE w = "error" -> "done"
                                    [] w = "granted" -> "prepare"
                                    [] OTHER -> "waitPermit"]
       /\ ret' = [ret EXCEPT ![c] = IF w = "error"
                                    THEN Wrap("rate limiter error", ctx[c])
                                    ELSE @]
       /\ tokens' = IF w = "granted" THEN tokens - 1 ELSE tokens
       /\ permits' = [permits EXCEPT ![c] = IF w = "granted" THEN @ + 1 ELSE @]
    /\ UNCHANGED <<clientVars, page, ctx, attempt, resp, err, sends, waits, lateWaits,
                   nFail, nRetry, decodes, reader, nStale>>

\* c.rateLimiter.Wait(ctx) returns nil: the permit arrived while the context
\* was live (the blocked Wait takes whichever comes first)
PermitGranted(c) ==
    /\ pc[c] = "waitPermit"
    /\ ctx[c] = "live"
    /\ tokens > 0
    /\ tokens' = tokens - 1
    /\ permits' = [permits EXCEPT ![c] = @ + 1]
    /\ pc' = [pc EXCEPT ![c] = "prepare"]
    /\ UNCHANGED <<clientVars, apiVars, ctx, args, attempt, resp, err, ret, dest, sends,
                   waits, lateWaits, nFail, nRetry, decodes, reader, nStale>>

\* c.rateLimiter.Wait(ctx) returns the context's error
PermitCancelled(c) ==
    /\ pc[c] = "waitPermit"
    /\ ctx[c] # "live"
    /\ ret' = [ret EXCEPT ![c] = Wrap("rate limiter error", ctx[c])]
    /\ pc' = [pc EXCEPT ![c] = "done"]
    /\ UNCHANGED <<clientVars, apiVars, tokens, ctx, args, attempt, resp, err, dest, permits,
                   sends, waits, lateWaits, nFail, nRetry, decodes, reader, nStale>>

\* json.Marshal(body), bytes.NewReader(jsonBody) and
\* http.NewRequestWithContext: the one request every attempt sends; then the
\* loop starts
Prepare(c) ==
    /\ pc[c] = "prepare"
    /\ IF args[c].body = "unmarshalable"
       THEN /\ ret' = [ret EXCEPT ![c] = Wrap("failed to marshal request body",
                                               "json: unsupported type")]
            /\ pc' = [pc EXCEPT ![c] = "done"]
       ELSE IF args[c].method = "BAD METHOD"
            THEN /\ ret' = [ret EXCEPT ![c] = Wrap("failed to create request",
                                                    "net/http: invalid method")]
                 /\ pc' = [pc EXCEPT ![c] = "done"]
            ELSE /\ pc' = [pc EXCEPT ![c] = "send"]
                 /\ UNCHANGED ret
    /\ attempt' = [attempt EXCEPT ![c] = 0]
    /\ reader' = [reader EXCEPT ![c] = IF args[c].body = "params" THEN "unread" ELSE "none"]
    /\ UNCHANGED <<clientVars, apiVars, tokens, ctx, args, resp, err, dest, permits, sends,
                   waits, lateWaits, nFail, nRetry, decodes, nStale>>

\* time.Sleep(time.Duration(1<<attempt) * time.Second) starts; it does not
\* look at the context
StartSleep(c) ==
    /\ pc' = [pc EXCEPT ![c] = "sleeping"]
    /\ waits' = [waits EXCEPT ![c] = Append(@, Backoff(attempt[c]))]
    /\ lateWaits' = [lateWaits EXCEPT ![c] = IF ctx[c] # "live" THEN @ + 1 ELSE @]

\* giving up with the error of the send before the last one
OnDoErrorStale(c, e) ==
    /\ resp' = [resp EXCEPT ![c] = NoResp]
    /\ err' = [err EXCEPT ![c] = e]
    /\ nFail' = [nFail EXCEPT ![c] = @ + 1]
    /\ IF MayRetry(attempt[c])
       THEN /\ StartSleep(c)
            /\ UNCHANGED ret
       ELSE /\ ret' = [ret EXCEPT ![c] = Wrap("request failed", err[c])]
            /\ pc' = [pc EXCEPT ![c] = "done"]
            /\ UNCHANGED <<waits, lateWaits>>
    /\ UNCHANGED nRetry

\* c.httpClient.Do returned an error: sleep and retry, or give up
OnDoError(c, e) ==
    /\ resp' = [resp EXCEPT ![c] = NoResp]
    /\ err' = [err EXCEPT ![c] = e]
    /\ nFail' = [nFail EXCEPT ![c] = @ + 1]
    /\ IF MayRetry(attempt[c])
       THEN /\ StartSleep(c)
            /\ UNCHANGED ret
       ELSE /\ ret' = [ret EXCEPT ![c] = Wrap("request failed", e)]
            /\ pc' = [pc EXCEPT ![c] = "done"]
            /\ UNCHANGED <<waits, lateWaits>>
    /\ UNCHANGED nRetry

\* c.httpClient.Do returned a response: close it, sleep and retry, or break
OnDoResponse(c, r) ==
    /\ resp' = [resp EXCEPT ![c] = r]
    /\ err' = [err EXCEPT ![c] = ""]
    /\ nRetry' = [nRetry EXCEPT ![c] = IF Retryable(r.status) THEN @ + 1 ELSE @]
    /\ IF Retryable(r.status) /\ MayRetry(attempt[c])
       THEN StartSleep(c)
       ELSE /\ pc' = [pc EXCEPT ![c] = "read"]
            /\ UNCHANGED <<waits, lateWaits>>
    /\ UNCHANGED <<ret, nFail>>

\* resp, err = c.httpClient.Do(req): the transport refuses a request whose
\* context is already done, otherwise the request goes out
Do(c) ==
    /\ pc[c] = "send"
    /\ sends' = [sends EXCEPT ![c] = @ + 1]
    /\ IF ctx[c] # "live"
       THEN OnDoError(c, ctx[c])
       ELSE /\ pc' = [pc EXCEPT ![c] = "inflight"]
            /\ UNCHANGED <<resp, err, ret, waits, lateWaits, nFail, nRetry>>
    /\ UNCHANGED <<clientVars, apiVars, tokens, ctx, args, attempt, dest, permits, decodes,
                   reader, nStale>>

\* the send in flight fails: a transport failure, the context's error once
\* the context is done, or the transport's refusal to write a body whose
\* reader an earlier attempt has drained; a failure may come before or after
\* the transport has read the body (drain)
DoFails(c, e, drain) ==
    /\ pc[c] = "inflight"
    /\ \/ e \in TransportErrs
       \/ ctx[c] # "live" /\ e = ctx[c]
       \/ reader[c] = "drained" /\ e = StaleBodyErr
    /\ drain => reader[c] = "unread"
    /\ reader' = [reader EXCEPT ![c] = IF drain THEN "drained" ELSE @]
    /\ nStale' = [nStale EXCEPT ![c] = IF e = StaleBodyErr THEN @ + 1 ELSE @]
    /\ OnDoError(c, e)
    /\ UNCHANGED <<clientVars, apiVars, tokens, ctx, args, attempt, dest, permits, sends,
                   decodes>>

\* the send in flight is answered: the request went out whole, so its body
\* was not drained before, and is now
DoResponds(c, r) ==
    /\ pc[c] = "inflight"
    /\ reader[c] # "drained"
    /\ reader' = [reader EXCEPT ![c] = IF @ = "unread" THEN "drained" ELSE @]
    /\ OnDoResponse(c, r)
    /\ UNCHANGED <<clientVars, apiVars, tokens, ctx, args, attempt, dest, permits, sends,
                   decodes, nStale>>

\* a loop counter kept on the client and shared by its calls
WakeSharedAttempt(c) ==
    /\ pc[c] = "sleeping"
    /\ attempt' = [d \in Calls |-> attempt[d] + 1]
    /\ pc' = [pc EXCEPT ![c] = "send"]
    /\ UNCHANGED <<clientVars, apiVars, tokens, ctx, args, resp, err, ret, dest, permits,
                   sends, waits, lateWaits, nFail, nRetry, decodes, reader, nStale>>

\* time.Sleep returns; continue: attempt++
Wake(c) ==
    /\ pc[c] = "sleeping"
    /\ attempt' = [attempt EXCEPT ![c] = @ + 1]
    /\ pc' = [pc EXCEPT ![c] = "send"]
    /\ UNCHANGED <<clientVars, apiVars, tokens, ctx, args, resp, err, ret, dest, permits,
                   sends, waits, lateWaits, nFail, nRetry, decodes, reader, nStale>>

\* the error Request returns after the loop, for a body that was read
Classify(c) ==
    IF IsErrorStatus(resp[c].status)
    THEN handleError(resp[c].status, resp[c].body, resp[c].requestID)
    ELSE IF ShouldDecode(dest[c], resp[c].body)
         THEN IF UnmarshalResult(resp[c].body, dest[c]).ok
              THEN NilErr
              ELSE Wrap("failed to parse response", "json: cannot unmarshal")
         ELSE NilErr

\* after the loop: io.ReadAll(resp.Body), then handleError or json.Unmarshal
ReadBody(c, readOK) ==
    /\ pc[c] = "read"
    /\ pc' = [pc EXCEPT ![c] = "done"]
    /\ IF ~readOK
       THEN /\ ret' = [ret EXCEPT ![c] = Wrap("failed to read response body",
                                               "unexpected EOF")]
            /\ UNCHANGED <<dest, decodes>>
       ELSE /\ ret' = [ret EXCEPT ![c] = Classify(c)]
            /\ IF ~IsErrorStatus(resp[c].status) /\ ShouldDecode(dest[c], resp[c].body)
               THEN /\ dest' = [dest EXCEPT ![c] = UnmarshalResult(resp[c].body, @).dest]
                    /\ decodes' = [decodes EXCEPT ![c] = @ + 1]
               ELSE UNCHANGED <<dest, decodes>>
    /\ UNCHANGED <<clientVars, apiVars, tokens, ctx, args, attempt, resp, err, permits, sends,
                   waits, lateWaits, nFail, nRetry, reader, nStale>>

Next ==
    \/ \E k \in Keys, o \in OptLists : New(k, o)
    \/ Refill
    \/ \E c \in Calls, how \in CtxStates \ {"live"} : Cancel(c, how)
    \/ \E c \in Calls, m \in Methods, b \in BodyArgs, r \in BOOLEAN :
            Request(c, m, b, r) /\ UNCHANGED voice
    \/ \E c \in Calls : PermitGranted(c)
    \/ \E c \in Calls : PermitCancelled(c)
    \/ \E c \in Calls : Prepare(c)
    \/ \E c \in Calls : Do(c)
    \/ \E c \in Calls, e \in DoErrs, drain \in BOOLEAN : DoFails(c, e, drain)
    \/ \E c \in Calls, r \in Responses : DoResponds(c, r)
    \/ \E c \in Calls : Wake(c)
    \/ \E c \in Calls, ok \in BOOLEAN : ReadBody(c, ok)

Spec == Init /\ [][Next]_vars

-----------------------------------------------------------------------------
(* Two Request calls on one shared client whose contexts stay live, on a   *)
(* narrower choice of inputs, with the scheduling the runtime guarantees:  *)
(* a call that can take a step eventually takes one (a send returns, a     *)
(* sleep ends), and the limiter's bucket refills.                          *)

TwoCalls == {"call1", "call2"}

ConcOptLists == {<<>>, <<[name |-> "WithRateLimiter", burst |-> 1, tokens |-> 0]>>}

ConcStatuses == {200, 429, 500}

ConcResponses ==
    [status : ConcStatuses, body : {EmptyBody}, requestID : {""}, present : {TRUE}]

ConcDoErrs == {"connection refused", StaleBodyErr}

\* the steps call c takes by itself once Request was called
CallStep(c) ==
    \/ PermitGranted(c)
    \/ Prepare(c)
    \/ Do(c)
    \/ \E e \in ConcDoErrs, drain \in BOOLEAN : DoFails(c, e, drain)
    \/ \E r \in ConcResponses : DoResponds(c, r)
    \/ Wake(c)
    \/ \E ok \in BOOLEAN : ReadBody(c, ok)

InitConc == InitCalls(TwoCalls) /\ page = NoPage

NextConc ==
    \/ \E o \in ConcOptLists : New(PrefixLive, o)
    \/ Refill
    \/ \E c \in Calls, b \in {"nil", "params"} :
            Request(c, "POST", b, FALSE) /\ UNCHANGED voice
    \/ \E c \in Calls : CallStep(c)

SpecConc ==
    /\ InitConc
    /\ [][NextConc]_vars
    /\ WF_vars(Refill)
    /\ \A c \in TwoCalls : WF_vars(CallStep(c))

-----------------------------------------------------------------------------
(* Calls.Create on a client, followed by the Request call it delegates to *)

\* VoiceAPI.Create(ctx, params)
Create(c, p) ==
    /\ client # NoClient
    /\ pc[c] = "idle"
    /\ voice[c].state = "none"
    /\ IF MissingContent(p)
       THEN /\ voice' = [voice EXCEPT ![c] =
                    [state |-> "rejected", given |-> p, params |-> p,
                     err |-> PlainErr("either TTSMessage or AudioURL is required")]]
            /\ UNCHANGED <<clientVars, page, tokens, pc, ctx, args, attempt, resp, err, ret,
                           dest, permits, sends, waits, lateWaits, nFail, nRetry, decodes,
                           reader, nStale>>
       ELSE /\ voice' = [voice EXCEPT ![c] =
                    [state |-> "delegated", given |-> p, params |-> WithDefaults(p),
                     err |-> NilErr]]
            /\ Request(c, "POST", "params", TRUE)

\* what Create returns: (nil, err) or (&resp.Data, nil)
CreateResult(c) ==
    CASE voice[c].state = "rejected" -> [returned |-> TRUE, call |-> "nil", err |-> voice[c].err]
      [] voice[c].state = "delegated" /\ pc[c] = "done" /\ ret[c] # NilErr ->
            [returned |-> TRUE, call |-> "nil", err |-> ret[c]]
      [] voice[c].state = "delegated" /\ pc[c] = "done" /\ ret[c] = NilErr ->
            [returned |-> TRUE, call |-> "resp.Data", err |-> NilErr]
      [] OTHER -> [returned |-> FALSE, call |-> "nil", err |-> NilErr]

InitVoice == InitCalls(OneCall) /\ page = NoPage

NextVoice ==
    \/ \E o \in ConcOptLists : New(PrefixLive, o)
    \/ Refill
    \/ \E c \in Calls, p \in CallParams : Create(c, p)
    \/ \E c \in Calls : CallStep(c)

SpecVoice == InitVoice /\ [][NextVoice]_vars

-----------------------------------------------------------------------------
(* HasMore and NextOffset on a page with non-negative fields *)

\* p.HasMore()
CallHasMore ==
    /\ ~page.askedHasMore
    /\ page' = [page EXCEPT !.askedHasMore = TRUE, !.hasMore = HasMore(page)]
    /\ UNCHANGED <<clientVars, voice, tokens, pc, ctx, args, attempt, resp, err, ret, dest,
                   permits, sends, waits, lateWaits, nFail, nRetry, decodes, reader, nStale>>

\* p.NextOffset()
CallNextOffset ==
    /\ ~page.askedNextOffset
    /\ page' = [page EXCEPT !.askedNextOffset = TRUE, !.nextOffset = NextOffset(page)]
    /\ UNCHANGED <<clientVars, voice, tokens, pc, ctx, args, attempt, resp, err, ret, dest,
                   permits, sends, waits, lateWaits, nFail, nRetry, decodes, reader, nStale>>

InitPage == InitCalls(OneCall) /\ page \in Pages

NextPage == CallHasMore \/ CallNextOffset

SpecPage == InitPage /\ [][NextPage]_vars

-----------------------------------------------------------------------------
(* Properties *)

\* the call has returned after reading the body of its last response
BodyWasRead(c) ==
    /\ pc[c] = "done"
    /\ resp[c].present
    /\ ~(ret[c].kind = "wrapped" /\ ret[c].msg = "failed to read response body")

\* the backoff schedule: 1s, 2s, 4s
Schedule == <<1, 2, 4>>

\* C1: when the server answers every send that reaches it with 429 or 5xx
\* (no send fails on the network or on the context), a call that has returned
\* with the last body read has made exactly 4 sends and the waits 1s, 2s, 4s,
\* none after the last send, and returns the typed error classified from the
\* last response: its status code and request id.
C1_RetryableStatusExhausts ==
    \A c \in Calls :
        (/\ pc[c] = "done"
         /\ sends[c] > 0
         /\ nFail[c] = nStale[c]
         /\ nRetry[c] = sends[c] - nFail[c]
         /\ ~(ret[c].kind = "wrapped" /\ ret[c].msg = "failed to read response body"))
        => /\ sends[c] = 4
           /\ waits[c] = Schedule
           /\ resp[c].present
           /\ ret[c].kind \in TypedKinds
           /\ ret[c].statusCode = resp[c].status
           /\ ret[c].requestID = resp[c].requestID

\* C2: when every send of a call fails at transport level, the call makes at
\* most 4 sends, waits 1s, 2s, 4s between them (doubling from 1 second), and
\* once it has returned it has made exactly 4 sends and returns the
\* "request failed" error wrapping the failure of the last send, which is not
\* a typed API error.
C2_TransportFailureExhausts ==
    \A c \in Calls :
        (sends[c] > 0 /\ nFail[c] = sends[c] - (IF pc[c] = "inflight" THEN 1 ELSE 0))
        => /\ sends[c] <= 4
           /\ waits[c] = SubSeq(Schedule, 1, Len(waits[c]))
           /\ \A i \in 2..Len(waits[c]) : waits[c][i] = 2 * waits[c][i - 1]
           /\ pc[c] = "done" =>
                /\ sends[c] = 4
                /\ waits[c] = Schedule
                /\ ret[c] = Wrap("request failed", err[c])
                /\ ret[c].kind \notin TypedKinds
                /\ ~resp[c].present

C2_Witness ==
    \E c \in Calls :
        /\ pc[c] = "done"
        /\ nFail[c] = 4
        /\ ctx[c] = "live"
        /\ ret[c] = Wrap("request failed", "i/o timeout")

\* C3: once the context of a call is done, the call starts no further
\* backoff wait.
C3_NoWaitAfterCancel ==
    \A c \in Calls : lateWaits[c] = 0

RateLimiterError(c) == ret[c].kind = "wrapped" /\ ret[c].msg = "rate limiter error"

\* C4: a call never holds more than one permit and holds it whenever it has
\* sent or has got past the permit wait, however many sends follow; a call
\* that returns a rate-limiter error has taken no permit, made no send and no
\* wait; and a call whose context is done before the permit is granted leaves
\* the permit wait only by returning the rate-limiter error wrapping the
\* context's error.
C4_OnePermitBeforeSend ==
    /\ [](\A c \in Calls :
            /\ permits[c] <= 1
            /\ sends[c] > 0 => permits[c] = 1
            /\ pc[c] \in {"prepare", "send", "inflight", "sleeping", "read"} => permits[c] = 1
            /\ (pc[c] = "done" /\ RateLimiterError(c)) =>
                    /\ permits[c] = 0
                    /\ sends[c] = 0
                    /\ waits[c] = <<>>
                    /\ ctx[c] # "live"
                    /\ ret[c].cause = ctx[c]
            /\ (pc[c] = "done" /\ permits[c] = 0) => RateLimiterError(c))
    /\ [][\A c \in Calls :
            (pc[c] \in {"idle", "waitPermit"} /\ ctx[c] # "live" /\ pc'[c] # pc[c])
            => /\ pc'[c] = "done"
               /\ ret'[c] = Wrap("rate limiter error", ctx[c])
               /\ permits'[c] = 0
               /\ sends'[c] = 0
               /\ tokens' = tokens]_vars

C4_Witness ==
    \E c \in Calls :
        /\ pc[c] = "done"
        /\ sends[c] = 4
        /\ permits[c] = 1
        /\ client.burst = 1

\* the error kind the status code selects
KindOf(status) ==
    CASE status = 400 -> "ValidationError"
      [] status = 401 -> "AuthenticationError"
      [] status = 404 -> "NotFoundError"
      [] status = 429 -> "RateLimitError"
      [] OTHER -> "EKDSendError"

\* the body decodes as a JSON object
DecodesAsObject(body) == body.kind \in {"data", "envelope"}

\* C5 as stated: for every final response with status >= 400 whose body was
\* read, the kind of the returned error is selected by the status code alone.
C5_KindByStatusAlone ==
    \A c \in Calls :
        (BodyWasRead(c) /\ resp[c].status >= 400)
        => ret[c].kind = KindOf(resp[c].status)

\* C5 amended: for every final response with status >= 400 whose body was
\* read, Request returns one typed error carrying the status code; when the
\* body decodes as a JSON object its kind is selected by the status code
\* (400, 401, 404, 429, generic otherwise), the generic one carrying the
\* envelope's message and code; when the body does not decode the error is the
\* generic EKDSendError, whatever the status.
C5_KindByStatusWhenDecoded ==
    \A c \in Calls :
        (BodyWasRead(c) /\ resp[c].status >= 400)
        => /\ ret[c].kind \in TypedKinds
           /\ ret[c].statusCode = resp[c].status
           /\ DecodesAsObject(resp[c].body) =>
                /\ ret[c].kind = KindOf(resp[c].status)
                /\ resp[c].status \notin {400, 401, 404, 429} =>
                     /\ ret[c].message = resp[c].body.message
                     /\ ret[c].code = resp[c].body.code
           /\ ~DecodesAsObject(resp[c].body) =>
                /\ ret[c].kind = "EKDSendError"
                /\ ret[c].message = "API request failed"
                /\ ret[c].code = "UNKNOWN_ERROR"

C5_Witness ==
    \E c \in Calls :
        /\ BodyWasRead(c)
        /\ resp[c].status = 404
        /\ resp[c].body.kind = "envelope"
        /\ ret[c].kind = "NotFoundError"

\* the final response carries one of the four mapped statuses and an envelope
MappedEnvelope(c) ==
    /\ BodyWasRead(c)
    /\ resp[c].status \in {400, 401, 404, 429}
    /\ resp[c].body.kind = "envelope"

\* C6 as stated: for 400, 401, 404 and 429 with a well-formed envelope the
\* typed error's message and code equal the envelope's and its request id the
\* response's x-request-id.
C6_FieldsFromEnvelope ==
    \A c \in Calls :
        MappedEnvelope(c)
        => /\ ret[c].message = resp[c].body.message
           /\ ret[c].code = resp[c].body.code
           /\ ret[c].requestID = resp[c].requestID

\* the code each mapped kind carries whatever the envelope says
FixedCode(status) ==
    CASE status = 400 -> "VALIDATION_ERROR"
      [] status = 401 -> "AUTHENTICATION_ERROR"
      [] status = 429 -> "RATE_LIMIT_EXCEEDED"

\* C6 amended: the message equals the envelope's and the request id the
\* response's x-request-id; the code equals the envelope's for 404 only, and is
\* the fixed VALIDATION_ERROR, AUTHENTICATION_ERROR or RATE_LIMIT_EXCEEDED for
\* 400, 401 and 429.
C6_MessageAndRequestIDFromEnvelope ==
    \A c \in Calls :
        MappedEnvelope(c)
        => /\ ret[c].message = resp[c].body.message
           /\ ret[c].requestID = resp[c].requestID
           /\ ret[c].code = (IF resp[c].status = 404 THEN resp[c].body.code
                             ELSE FixedCode(resp[c].status))

C6_Witness ==
    \E c \in Calls :
        /\ MappedEnvelope(c)
        /\ resp[c].status = 400
        /\ resp[c].body.code = "E_CUSTOM"
        /\ resp[c].requestID = "req_1"
        /\ ret[c].code = "VALIDATION_ERROR"

\* C7: for a final response with status >= 400 whose body (once read) is not
\* valid JSON or is JSON that is no error envelope, Request returns a typed API
\* error, not a decode failure and not success, carrying the response's status
\* code and x-request-id.
C7_MalformedBodyStillTyped ==
    \A c \in Calls :
        (BodyWasRead(c) /\ resp[c].status >= 400 /\ resp[c].body.kind # "envelope")
        => /\ ret[c].kind \in TypedKinds
           /\ ret[c].statusCode = resp[c].status
           /\ ret[c].requestID = resp[c].requestID

C7_Witness ==
    \E c \in Calls :
        /\ BodyWasRead(c)
        /\ resp[c].status = 503
        /\ resp[c].body.kind = "text"
        /\ resp[c].requestID = "req_1"
        /\ ret[c].kind = "EKDSendError"

\* C8: after a final response with a 2xx status and an empty body, Request has
\* returned nil without any decoding and the destination is as the caller
\* supplied it; with no destination supplied, a non-empty body is not decoded
\* either.
C8_EmptyBodyLeavesDestination ==
    \A c \in Calls :
        (BodyWasRead(c) /\ resp[c].status \in 200..299)
        => /\ resp[c].body.kind = "empty" =>
                /\ ret[c] = NilErr
                /\ decodes[c] = 0
                /\ dest[c] = (IF args[c].result THEN OrigDest ELSE NoDest)
           /\ ~args[c].result =>
                /\ ret[c] = NilErr
                /\ decodes[c] = 0
                /\ dest[c] = NoDest

C8_Witness ==
    \E c \in Calls :
        /\ BodyWasRead(c)
        /\ resp[c].status = 200
        /\ resp[c].body.kind = "empty"
        /\ args[c].result
        /\ dest[c] = OrigDest
        /\ ret[c] = NilErr

\* C9: Request returns nil after a final response only when its status is in
\* 200-299, and decodes a body into the destination only then.
C9_SuccessOnly2xx ==
    \A c \in Calls :
        (pc[c] = "done" /\ resp[c].present)
        => /\ ret[c] = NilErr => resp[c].status \in 200..299
           /\ decodes[c] > 0 => resp[c].status \in 200..299

\* the key starts with one of the two recognised prefixes
Recognised(k) ==
    /\ Len(k) >= 8
    /\ \/ \A i \in 1..8 : k[i] = PrefixLive[i]
       \/ \A i \in 1..8 : k[i] = PrefixTest[i]

\* C10: once New has been called, a key that is empty or starts with neither
\* 'ek_live_' nor 'ek_test_' has given an error and no client, with no option
\* applied, the limiter untouched and no call started; a key with one of the
\* prefixes has given a client holding that key, with every option applied.
C10_KeyValidatedFirst ==
    newArgs.called =>
        IF Recognised(newArgs.apiKey)
        THEN /\ newErr = ""
             /\ client # NoClient
             /\ client.apiKey = newArgs.apiKey
             /\ optsApplied = newArgs.nOpts
        ELSE /\ newErr # ""
             /\ client = NoClient
             /\ optsApplied = 0
             /\ tokens = 0
             /\ \A c \in Calls : pc[c] = "idle" /\ permits[c] = 0 /\ sends[c] = 0

C10_Witness ==
    /\ newArgs.called
    /\ newArgs.apiKey = <<"e","k","_","l","i","v","e">>
    /\ newArgs.nOpts > 0
    /\ newErr # ""
    /\ optsApplied = 0

\* C16: every attempt of a call with a non-nil body sends the complete
\* serialized body: whenever the call is about to send or has a send in
\* flight, the reader behind the request body is still unread (the method, URL
\* and headers are those of the one request built before the loop).
C16_BodyCompleteEveryAttempt ==
    \A c \in Calls :
        (pc[c] \in {"send", "inflight"} /\ args[c].body = "params")
        => reader[c] = "unread"

\* the status is 429 or a 5xx
RetryableStatus(status) == status = 429 \/ status \in 500..599

\* the last send of the call ended in a failure or in a 429 or 5xx response
LastSendRetryable(c) ==
    \/ err[c] # ""
    \/ resp[c].present /\ RetryableStatus(resp[c].status)

ReturnedWith(c, msg) ==
    pc[c] = "done" /\ ret[c].kind = "wrapped" /\ ret[c].msg = msg

\* C14: a call makes a further send only after a send that ended in a
\* transport failure or a 429 or 5xx response, and only while fewer than 4
\* sends were made; after such a send with fewer than 4 made it goes on to
\* wait and send again; a response with any other status ends the loop after
\* exactly that send, with no wait after it; a body that cannot be serialized
\* returns with no send and no wait, a 2xx body that cannot be decoded returns
\* with no wait or send after the response; and a call that has returned sends
\* and waits no more.
C14_ResendOnlyAfterRetryable ==
    /\ [](\A c \in Calls :
            /\ (resp[c].present /\ ~RetryableStatus(resp[c].status)) =>
                    /\ pc[c] \in {"read", "done"}
                    /\ Len(waits[c]) = sends[c] - 1
            /\ (pc[c] \in {"read", "done"} /\ sends[c] > 0) =>
                    \/ resp[c].present /\ ~RetryableStatus(resp[c].status)
                    \/ sends[c] = 4
            /\ ReturnedWith(c, "failed to marshal request body") =>
                    sends[c] = 0 /\ waits[c] = <<>>
            /\ ReturnedWith(c, "failed to parse response") =>
                    /\ resp[c].present
                    /\ Len(waits[c]) = sends[c] - 1)
    /\ [][\A c \in Calls :
            /\ (sends'[c] # sends[c] /\ sends[c] > 0) =>
                    /\ sends[c] < 4
                    /\ LastSendRetryable(c)
                    /\ Len(waits[c]) = sends[c]
            /\ pc[c] = "done" =>
                    /\ pc'[c] = "done"
                    /\ sends'[c] = sends[c]
                    /\ waits'[c] = waits[c]]_vars

C14_Witness ==
    \E c \in Calls :
        /\ ReturnedWith(c, "failed to parse response")
        /\ sends[c] = 2
        /\ nRetry[c] = 1
        /\ waits[c] = <<1>>

\* what call c itself has done and got
CallState(c) ==
    <<pc[c], attempt[c], sends[c], waits[c], resp[c], err[c], ret[c], dest[c],
      nFail[c], nRetry[c], reader[c]>>

\* the loop positions of a call
InLoop(c) == pc[c] \in {"send", "inflight", "sleeping"}

\* C13: with two calls on one client, a step of one call leaves the other
\* call's position, attempt counter, sends, waits, response and result as they
\* were; each call counts its own attempts and follows the schedule 1s, 2s, 4s
\* from its own start; a call's result comes from its own last send; and
\* within a call a send starts only from the position before a send (so none
\* is in flight), one at a time, after every earlier send was followed by a
\* wait that has ended.
C13_CallsIndependent ==
    /\ [](\A c \in Calls :
            /\ waits[c] = SubSeq(Schedule, 1, Len(waits[c]))
            /\ InLoop(c) =>
                    /\ sends[c] = attempt[c] + (IF pc[c] = "send" THEN 0 ELSE 1)
                    /\ Len(waits[c]) = attempt[c] + (IF pc[c] = "sleeping" THEN 1 ELSE 0)
            /\ (pc[c] = "done" /\ sends[c] > 0 /\ ~resp[c].present) =>
                    ret[c] = Wrap("request failed", err[c])
            /\ (pc[c] = "done" /\ resp[c].present /\ resp[c].status >= 400
                /\ ~ReturnedWith(c, "failed to read response body")) =>
                    ret[c].statusCode = resp[c].status)
    /\ [][\A c \in Calls :
            /\ \A d \in Calls \ {c} :
                    CallState(c)' # CallState(c) => CallState(d)' = CallState(d)
            /\ sends'[c] # sends[c] =>
                    /\ pc[c] = "send"
                    /\ sends'[c] = sends[c] + 1
                    /\ Len(waits[c]) = sends[c]
            /\ (pc'[c] = "inflight" /\ pc[c] # "inflight") => pc[c] = "send"]_vars

C13_Witness ==
    \E c \in Calls, d \in Calls :
        /\ c # d
        /\ pc[c] = "sleeping"
        /\ attempt[c] = 2
        /\ waits[c] = Schedule
        /\ pc[d] = "inflight"
        /\ attempt[d] = 0
        /\ waits[d] = <<>>

RECURSIVE SumSeq(_)
SumSeq(q) == IF q = <<>> THEN 0 ELSE Head(q) + SumSeq(Tail(q))

\* C15: whatever mix of transport failures, 429 or 5xx responses and other
\* responses a call meets, it makes at most 4 sends and at most 3 waits of at
\* most 7 seconds in all, it reads a response body only when the last send
\* returned a response, and, every send returning, it returns.
C15_SharedBudgetTerminates ==
    /\ [](\A c \in Calls :
            /\ sends[c] <= 4
            /\ Len(waits[c]) <= 3
            /\ SumSeq(waits[c]) <= 7
            /\ pc[c] = "read" => (resp[c].present /\ err[c] = ""))
    /\ \A c \in TwoCalls :
            (pc[c] \in {"prepare", "send", "inflight", "sleeping", "read"}) ~> (pc[c] = "done")

C15_Witness ==
    \E c \in Calls :
        /\ pc[c] = "done"
        /\ sends[c] = 4
        /\ nFail[c] = 2
        /\ nRetry[c] = 1
        /\ resp[c].present
        /\ resp[c].status = 200
        /\ SumSeq(waits[c]) = 7

\* C11: Calls.Create with TTSMessage and AudioURL both empty returns an error
\* and no call object, takes no permit, sends nothing and leaves the params
\* as they were given, Voice and Language included; with either of the two
\* set, the call is handed to Request as a POST of the params.
C11_CreateValidatesFirst ==
    \A c \in Calls :
        voice[c].state # "none" =>
            IF voice[c].given.TTSMessage = "" /\ voice[c].given.AudioURL = ""
            THEN /\ voice[c].state = "rejected"
                 /\ CreateResult(c).returned
                 /\ CreateResult(c).call = "nil"
                 /\ CreateResult(c).err # NilErr
                 /\ pc[c] = "idle"
                 /\ permits[c] = 0
                 /\ sends[c] = 0
                 /\ voice[c].params = voice[c].given
            ELSE /\ voice[c].state = "delegated"
                 /\ pc[c] # "idle"
                 /\ args[c] = [method |-> "POST", body |-> "params", result |-> TRUE]

C11_Witness ==
    \E c \in Calls :
        /\ voice[c].state = "rejected"
        /\ voice[c].given = NoParams
        /\ voice[c].params.Voice = ""
        /\ voice[c].params.Language = ""
        /\ tokens > 0

\* C12: on a page with non-negative offset, limit and total, HasMore() is true
\* exactly when offset + limit < total and NextOffset() is offset + limit, the
\* sums being those of the integers.
C12_PageArithmeticExact ==
    /\ page.askedHasMore => (page.hasMore <=> (page.Offset + page.Limit < page.Total))
    /\ page.askedNextOffset => page.nextOffset = page.Offset + page.Limit

====
